---- MODULE Spec2Model ----
(***************************************************************************)
(* Section-generation pipeline of AiResearcher.                            *)
(*                                                                         *)
(* Spec     : ResearchPage.handleDocumentGeneration driving                *)
(*            api.ts ResearchAPI.generateSectionBatch through withRetry.   *)
(* FairSpec : Spec with the progress the event loop guarantees.            *)
(* SpecAuth : authService.ts ResearchAPI.generateSectionBatch, the         *)
(*            per-section variant with the 15 s request spacing.           *)
(* SpecRetry: withRetry taken alone, as each caller parameterises it.      *)
(* SpecOutline: ResearchPage.handleOutlineGeneration and its parser.       *)
(* SpecExport: ResearchPage.handleDownloadMarkdown and downloadMarkdown.   *)
(* SpecApi  : api.ts getResearchApi and ResearchAPI.initialize, called by  *)
(*            overlapping callers.                                         *)
(* SpecPage : the outline and document handlers of the page together, as   *)
(*            the user can start them.                                     *)
(*                                                                         *)
(* Strings are sequences of one-character strings, <<>> being the empty    *)
(* (falsy) string; the document title and the research target, of which    *)
(* the handlers only read the length, are kept as that length.             *)
(***************************************************************************)
EXTENDS Integers, Sequences, FiniteSets, TLC

\* ------------------------------------------------------------- bounds
MaxSections == 2
MaxSubs == 1
MaxRuns == 1
MaxBatch == 2
\* Longest fraction (digits after the point) of a hint in the messages drawn.
MaxFraction == 4
\* Lines of an outline text, and outline generations started.
MaxLines == 4
MaxOutlineRuns == 1
\* Overlapping callers of getResearchApi.
MaxCallers == 3

\* ------------------------------------------------- program constants
maxRetries == 8
withRetryMaxRetries == 8
MinLength == 3
MinInterval == 15000
authMaxRetries == 12
authInitialDelay == 15000
BackoffCap == 30000
SectionDelay == 15000
DefaultWait == 5000
initialDelay == 1000
withRetryInitialDelay == 1000
MaxBackoff == 700000
authDefaultMaxRetries == 3

\* ------------------------------------------------------------ values
Texts == {<<"g">>}
TitleLengths == {12}
TargetLengths == {2, 20}
NoError == [kind |-> "none", section |-> 0]
NoCaught == [code |-> "none", message |-> <<>>]
NoAuthError == NoCaught

VARIABLES
    \* redux store (researchSlice)
    sections, error, researchTarget,
    \* component state
    isGeneratingDocument,
    \* locals of the running handleDocumentGeneration
    pc, updatedSections, i, retryCount, completedSections,
    \* the generateSectionBatch call in progress
    batch, attempt, err, result,
    \* history of the current run
    runs, startSections, outcome, succeeded, callRequests, reqFailed, backoff,
    \* authService.ts generateSectionBatch: the call in progress
    authPc, authInput, batches, authIdx, authRetryCount, authErr, returned,
    \* elapsed times (ms, saturating at MinInterval) and history
    timeSinceLastRequest, sinceRequest, issueGap, okNodes,
    \* one withRetry call taken alone: its parameters, position and locals
    wVariant, wPc, wRetryCount, wError, waitTime,
    \* handleOutlineGeneration: store title, component flag, position, and
    \* what the last run read and parsed
    title, isGeneratingOutline, outlinePc, outlineText, lines, parsedSections,
    outlineOutcome, outlineRuns,
    \* handleDownloadMarkdown: the text of the file produced, whether one
    \* was produced, and the tree it was produced from
    markdown, downloaded, exportedSections,
    \* api.ts: ResearchAPI.instance, researchApiInstance, each caller of
    \* getResearchApi (position, value initialize resolved with, value
    \* obtained), and the number of ResearchAPI objects constructed
    instance, researchApiInstance, apiPc, resolved, obtained, constructed

pageVars == <<sections, error, researchTarget, isGeneratingDocument,
              pc, updatedSections, i, retryCount, completedSections,
              batch, attempt, err, result,
              runs, startSections, outcome, succeeded, callRequests, reqFailed,
              backoff>>

authVars == <<authPc, authInput, batches, authIdx, authRetryCount, authErr,
              returned, timeSinceLastRequest, sinceRequest, issueGap, okNodes>>

retryVars == <<wVariant, wPc, wRetryCount, wError, waitTime>>

outlineVars == <<title, isGeneratingOutline, outlinePc, outlineText, lines,
                 parsedSections, outlineOutcome, outlineRuns>>

exportVars == <<markdown, downloaded, exportedSections>>

apiVars == <<instance, researchApiInstance, apiPc, resolved, obtained,
             constructed>>

vars == <<pageVars, authVars, retryVars, outlineVars, exportVars, apiVars>>

outsidePage == <<authVars, retryVars, outlineVars, exportVars, apiVars>>
outsideAuth == <<pageVars, retryVars, outlineVars, exportVars, apiVars>>
outsideRetry == <<pageVars, authVars, outlineVars, exportVars, apiVars>>
outsideOutline == <<authVars, retryVars, exportVars, apiVars>>

store == <<sections, error, researchTarget>>
locals == <<updatedSections, i, retryCount, completedSections>>
call == <<batch, attempt, err, result>>
history == <<runs, startSections, outcome, succeeded, callRequests, reqFailed,
             backoff>>
documentRun == <<isGeneratingDocument, pc, locals, call, history>>

\* ------------------------------------------------------------- trees
\* The text of a number below ten, a title of t characters, and the
\* description an outline leaves as a node's content.
NumberText(n) == <<<<"0", "1", "2", "3", "4", "5", "6", "7", "8", "9">>[n + 1]>>
TitleText(t) == [k \in 1..t |-> "T"]
DescriptionText == <<"d">>

Subsection(n, j, t) ==
    [number |-> NumberText(n) \o <<".">> \o NumberText(j),
     title |-> TitleText(t), content |-> DescriptionText]

Section(n, t, k) ==
    [number |-> NumberText(n), title |-> TitleText(t),
     content |-> DescriptionText,
     subsections |-> [j \in 1..k |-> Subsection(n, j, t)]]

Kinds == [t : TitleLengths, k : 0..MaxSubs]

TreesOfLen(n) ==
    {[s \in 1..n |-> Section(s, f[s].t, f[s].k)] : f \in [1..n -> Kinds]}

Trees == UNION {TreesOfLen(n) : n \in 0..MaxSections}

\* ------------------------------------------------------------ helpers
DeepCopy(secs) ==
    [s \in 1..Len(secs) |->
        [secs[s] EXCEPT !.subsections =
            [j \in 1..Len(secs[s].subsections) |-> secs[s].subsections[j]]]]

\* Mutant of WithContent: the generated text is appended to the content the
\* node had.
WithContentAppended(us, idx, c) == [us EXCEPT ![idx].content = @ \o c]

\* Mutant of WithContent: the node is replaced by the object the service
\* returned, which was sent without its number.
WithContentReturned(us, idx, c) ==
    [us EXCEPT ![idx] = [number |-> <<>>, title |-> @.title, content |-> c,
                         subsections |-> @.subsections]]

\* Mutant of WithContent: the new tree is rebuilt from the tree captured when
\* the run started (a stale research.sections) instead of updatedSections.
WithContentStale(us, idx, c) == [startSections EXCEPT ![idx].content = c]

WithContent(us, idx, c) == [us EXCEPT ![idx].content = c]

WithSubsections(us, idx, reply) ==
    [us EXCEPT ![idx].subsections =
        [j \in 1..Len(us[idx].subsections) |->
            [us[idx].subsections[j] EXCEPT !.content =
                IF reply[j] # <<>> THEN reply[j] ELSE @]]]

ValidateConfig(topic, target) == topic >= MinLength /\ target >= MinLength

BatchSize ==
    IF batch = "main" THEN 1 ELSE Len(updatedSections[i].subsections)

BatchTopic ==
    IF batch = "main" THEN Len(updatedSections[i].title)
    ELSE Len(updatedSections[i].subsections[1].title)

Replies(n) == [1..n -> Texts \cup {<<>>}]
Complete(reply) == \A j \in DOMAIN reply : reply[j] # <<>>


\* ------------------------------------------------------- retry waits
\* An error message is a sequence of pieces of text: the literal the regular
\* expression of parseRateLimitError looks for, other wording, and, one
\* character at a time, the digits, the point and the unit letters that follow.
HintLiteral == "Please try again in "
OtherWording == "try again in "
DigitChars == <<"0", "1", "2", "3", "4", "5", "6", "7", "8", "9">>
IsDigit(c) == \E k \in 1..10 : DigitChars[k] = c
DigitValue(c) == (CHOOSE k \in 1..10 : DigitChars[k] = c) - 1

Messages ==
    { <<>>,
      <<"Rate limit reached.">>,
      <<"Rate limit reached. ", HintLiteral, "7", ".", "5", "s">>,
      <<"Rate limit reached. ", HintLiteral, "1", "2", "s", ".">>,
      <<"Rate limit reached. ", HintLiteral, "2", ".", "0", "0", "7", "s">>,
      <<"Rate limit reached. ", HintLiteral, "1", ".", "2", "3", "4", "5", "s">>,
      <<"Rate limit reached. ", HintLiteral, "1", "m", "3", "0", ".", "5", "s">>,
      <<"Rate limit reached, ", OtherWording, "7", ".", "5", "s">> }

Errors ==
    {[code |-> "rate_limit_exceeded", message |-> m] : m \in Messages}
        \cup {[code |-> "other", message |-> <<>>],
              [code |-> "other",
               message |-> <<"Rate limit reached. ", HintLiteral, "7", ".", "5", "s">>]}

Least(a, b) == IF a < b THEN a ELSE b

\* Index after the longest run of digits of msg that starts at index p.
RECURSIVE DigitsEnd(_, _)
DigitsEnd(msg, p) ==
    IF p <= Len(msg) /\ IsDigit(msg[p]) THEN DigitsEnd(msg, p + 1) ELSE p

RECURSIVE DigitsValue(_)
DigitsValue(ds) ==
    IF ds = <<>> THEN 0
    ELSE 10 * DigitsValue(SubSeq(ds, 1, Len(ds) - 1)) + DigitValue(ds[Len(ds)])

\* /<literal>(\d+\.?\d*)s/ tried at index p: the piece at p is one of the
\* literals, then digits, an optional point, digits, and the letter s. The
\* quantifiers are greedy and no shorter choice can put an s where a digit or
\* a point stands, so the greedy reading is the only one.
PointEnd(msg, p) == IF p <= Len(msg) /\ msg[p] = "." THEN p + 1 ELSE p

MatchAt(msg, p, literals) ==
    /\ msg[p] \in literals
    /\ p + 1 <= Len(msg)
    /\ IsDigit(msg[p + 1])
    /\ LET c == DigitsEnd(msg, PointEnd(msg, DigitsEnd(msg, p + 1)))
       IN  c <= Len(msg) /\ msg[c] = "s"

Matches(msg, literals) == \E p \in 1..Len(msg) : MatchAt(msg, p, literals)

\* match[1] of the leftmost match, as the number of 1/10000 s it denotes
\* (the fractions drawn have at most MaxFraction digits).
Captured(msg, literals) ==
    LET p == CHOOSE q \in 1..Len(msg) :
                /\ MatchAt(msg, q, literals)
                /\ \A r \in 1..(q - 1) : ~MatchAt(msg, r, literals)
        a == DigitsEnd(msg, p + 1)
        b == PointEnd(msg, a)
        c == DigitsEnd(msg, b)
    IN  DigitsValue(SubSeq(msg, p + 1, a - 1)) * (10 ^ MaxFraction)
          + DigitsValue(SubSeq(msg, b, c - 1)) * (10 ^ (MaxFraction - (c - b)))

\* Math.ceil(parseFloat(text) * 1000) in IEEE-754 double arithmetic, for a
\* text that denotes n milliseconds exactly. With 2^k <= n/1000 < 2^(k+1) and
\* u = 2^(k-52), parseFloat gives d = M*u with M the integer nearest to
\* N/1000, N = n*2^(52-k) (ties to even), so 1000*d = n + r*u exactly, with
\* r = 1000*M - N. In the product's binade the spacing is 512*u when
\* n < 1024*2^k and 1024*u otherwise, and |r| <= 500: the product rounds to
\* the next double above n exactly when n < 1024*2^k and r > 256, and then
\* Math.ceil gives n + 1. r is found from N modulo 2000.
RECURSIVE DoubleMod(_, _)
DoubleMod(t, d) == IF d = 0 THEN t ELSE DoubleMod((2 * t) % 2000, d - 1)

RECURSIVE BinadeUp(_, _)
BinadeUp(n, k) == IF 2000 * (2 ^ k) <= n THEN BinadeUp(n, k + 1) ELSE k

RECURSIVE BinadeDown(_, _)
BinadeDown(n, m) == IF n * (2 ^ m) < 1000 THEN BinadeDown(n, m + 1) ELSE m

DoubleExcess(n) ==
    IF n = 0 THEN 0
    ELSE LET k == IF n >= 1000 THEN BinadeUp(n, 0) ELSE 0 - BinadeDown(n, 0)
             near == IF k >= 0 THEN n < 1024 * (2 ^ k)
                     ELSE n * (2 ^ (0 - k)) < 1024
             t == DoubleMod(n % 2000, 52 - k)
             q == t % 1000
             up == q > 500 \/ (q = 500 /\ t >= 1000)
         IN  IF near /\ up /\ 1000 - q > 256 THEN 1 ELSE 0

\* Math.ceil(parseFloat(match[1]) * 1000) for a text worth `units` 1/10000 s.
\* When the text is not a whole number of milliseconds the product is a
\* fraction of a millisecond away from any integer, the rounding error is
\* far smaller, and Math.ceil gives the next integer.
CeilMillis(units) ==
    IF units % 10 = 0
    THEN (units \div 10) + DoubleExcess(units \div 10)
    ELSE (units \div 10) + 1

ParseRateLimitError(e) ==
    IF e.message # <<>> /\ Matches(e.message, {HintLiteral})
    THEN CeilMillis(Captured(e.message, {HintLiteral}))
    ELSE DefaultWait

\* Mutant of WaitTime: the exponent is the number of the attempt to come.
WaitTimeNextAttempt(e, rc, delay0, cap) ==
    IF e.code = "rate_limit_exceeded"
    THEN ParseRateLimitError(e)
    ELSE Least(delay0 * (2 ^ (rc + 1)), cap)

\* Mutant of WaitTime: a throttling error is given the backoff wait too.
WaitTimeBackoffOnly(e, rc, delay0, cap) == Least(delay0 * (2 ^ rc), cap)

WaitTime(e, rc, delay0, cap) ==
    IF e.code = "rate_limit_exceeded"
    THEN ParseRateLimitError(e)
    ELSE Least(delay0 * (2 ^ rc), cap)

ApiWaitTime(e, rc) == WaitTime(e, rc, withRetryInitialDelay, MaxBackoff)

\* What the page draws as backend failures.
ApiErrors ==
    {[code |-> "rate_limit_exceeded",
      message |-> <<"Rate limit reached. ", HintLiteral, "7", ".", "5", "s">>],
     [code |-> "GENERATION_ERROR", message |-> <<>>]}

\* -------------------------------------------------------------- Init
AuthIdle ==
    /\ authPc = "idle"
    /\ authInput = <<>>
    /\ batches = <<>>
    /\ authIdx = 0
    /\ authRetryCount = 0
    /\ authErr = NoAuthError
    /\ returned = <<>>
    /\ timeSinceLastRequest = MinInterval
    /\ sinceRequest = MinInterval
    /\ issueGap = MinInterval
    /\ okNodes = {}

RetryIdle ==
    /\ wVariant = "api"
    /\ wPc = "idle"
    /\ wRetryCount = 0
    /\ wError = NoCaught
    /\ waitTime = 0

Callers == 1..MaxCallers

ExportIdle ==
    /\ markdown = <<>>
    /\ downloaded = FALSE
    /\ exportedSections = <<>>

\* 0 stands for null (no ResearchAPI object); the objects constructed are
\* numbered from 1 in the order of their construction.
ApiIdle ==
    /\ instance = 0
    /\ researchApiInstance = 0
    /\ apiPc = [c \in Callers |-> "idle"]
    /\ resolved = [c \in Callers |-> 0]
    /\ obtained = [c \in Callers |-> 0]
    /\ constructed = 0

OutlineIdle ==
    /\ title = 12
    /\ isGeneratingOutline = FALSE
    /\ outlinePc = "idle"
    /\ outlineText = <<>>
    /\ lines = <<>>
    /\ parsedSections = <<>>
    /\ outlineOutcome = "none"
    /\ outlineRuns = 0

DocumentIdle ==
    /\ isGeneratingDocument = FALSE
    /\ pc = "idle"
    /\ updatedSections = <<>>
    /\ i = 0
    /\ retryCount = 0
    /\ completedSections = 0
    /\ batch = "main"
    /\ attempt = 0
    /\ err = NoCaught
    /\ result = <<>>
    /\ startSections = <<>>
    /\ outcome = <<>>
    /\ succeeded = {}
    /\ callRequests = 0
    /\ runs = 0
    /\ reqFailed = {}
    /\ backoff = 0

PageIdle ==
    /\ sections = <<>>
    /\ error = NoError
    /\ researchTarget = 0
    /\ DocumentIdle
    /\ OutlineIdle
    /\ ExportIdle
    /\ ApiIdle

Init ==
    /\ AuthIdle
    /\ RetryIdle
    /\ OutlineIdle
    /\ ExportIdle
    /\ ApiIdle
    /\ sections \in Trees
    /\ error = NoError
    /\ researchTarget \in TargetLengths
    /\ isGeneratingDocument = FALSE
    /\ pc = "idle"
    /\ updatedSections = <<>>
    /\ i = 0
    /\ retryCount = 0
    /\ completedSections = 0
    /\ batch = "main"
    /\ attempt = 0
    /\ err = NoCaught
    /\ result = <<>>
    /\ startSections = <<>>
    /\ outcome = <<>>
    /\ succeeded = {}
    /\ callRequests = 0
    /\ runs = 0
    /\ reqFailed = {}
    /\ backoff = 0

\* ----------------------------------------- handleDocumentGeneration
StartDocument ==
    /\ UNCHANGED outsidePage
    /\ pc = "idle"
    /\ ~isGeneratingDocument
    /\ IF Len(sections) = 0
       THEN /\ error' = [kind |-> "NoOutline", section |-> 0]
            /\ UNCHANGED <<sections, researchTarget, isGeneratingDocument, pc,
                           locals, call, history>>
       ELSE /\ runs < MaxRuns
            /\ isGeneratingDocument' = TRUE
            /\ updatedSections' = DeepCopy(sections)
            /\ completedSections' = 0
            /\ i' = 1
            /\ retryCount' = 0
            /\ pc' = "for"
            /\ startSections' = sections
            /\ outcome' = [s \in 1..Len(sections) |-> "pending"]
            /\ succeeded' = {}
            /\ callRequests' = 0
            /\ runs' = runs + 1
            /\ reqFailed' = {}
            /\ backoff' = 0
            /\ UNCHANGED <<store, call>>

\* Mutant of ForLoop: retryCount is declared once, outside the loop over the
\* sections.
ForLoopKeepCount ==
    /\ UNCHANGED outsidePage
    /\ pc = "for"
    /\ i <= Len(updatedSections)
    /\ retryCount' = retryCount
    /\ backoff' = 0
    /\ pc' = "while"
    /\ UNCHANGED <<store, isGeneratingDocument, updatedSections, i,
                   completedSections, call,
                   runs, startSections, outcome, succeeded, callRequests,
                   reqFailed>>

ForLoop ==
    /\ UNCHANGED outsidePage
    /\ pc = "for"
    /\ i <= Len(updatedSections)
    /\ retryCount' = 0
    /\ backoff' = 0
    /\ pc' = "while"
    /\ UNCHANGED <<store, isGeneratingDocument, updatedSections, i,
                   completedSections, call,
                   runs, startSections, outcome, succeeded, callRequests,
                   reqFailed>>

Finish ==
    /\ UNCHANGED outsidePage
    /\ pc = "for"
    /\ i > Len(updatedSections)
    /\ isGeneratingDocument' = FALSE
    /\ pc' = "idle"
    /\ updatedSections' = <<>>
    /\ i' = 0
    /\ retryCount' = 0
    /\ completedSections' = 0
    /\ UNCHANGED <<store, call, history>>

WhileAttempt ==
    /\ UNCHANGED outsidePage
    /\ pc = "while"
    /\ retryCount < maxRetries
    /\ batch' = "main"
    /\ attempt' = 0
    /\ callRequests' = 0
    /\ pc' = "op"
    /\ UNCHANGED <<store, isGeneratingDocument, locals, err, result,
                   runs, startSections, outcome, succeeded, reqFailed, backoff>>

\* ------------------------------- withRetry / generateSectionBatch
Operation ==
    /\ UNCHANGED outsidePage
    /\ pc = "op"
    /\ IF ValidateConfig(BatchTopic, researchTarget)
       THEN /\ pc' = "request"
            /\ callRequests' = callRequests + 1
            /\ err' = err
       ELSE /\ pc' = "catch"
            /\ err' = [code |-> "VALIDATION_ERROR", message |-> <<>>]
            /\ callRequests' = callRequests
    /\ UNCHANGED <<store, isGeneratingDocument, locals, batch, attempt, result,
                   runs, startSections, outcome, succeeded, reqFailed, backoff>>

RespondError ==
    /\ UNCHANGED outsidePage
    /\ pc = "request"
    /\ \E e \in ApiErrors : err' = e
    /\ pc' = "catch"
    /\ reqFailed' = reqFailed \cup {i}
    /\ UNCHANGED <<store, isGeneratingDocument, locals, batch, attempt, result,
                   runs, startSections, outcome, succeeded, callRequests,
                   backoff>>

RespondContent ==
    /\ UNCHANGED outsidePage
    /\ pc = "request"
    /\ \E reply \in Replies(BatchSize) :
        /\ result' = reply
        /\ IF Complete(reply)
           THEN /\ succeeded' = succeeded \cup {<<i, batch>>}
                /\ reqFailed' = reqFailed
           ELSE /\ reqFailed' = reqFailed \cup {i}
                /\ succeeded' = succeeded
    /\ pc' = "ret"
    /\ UNCHANGED <<store, isGeneratingDocument, locals, batch, attempt, err,
                   runs, startSections, outcome, callRequests,
                   backoff>>

WithRetryRetry ==
    /\ UNCHANGED outsidePage
    /\ pc = "catch"
    /\ attempt < withRetryMaxRetries
    /\ attempt' = attempt + 1
    /\ backoff' = IF err.code = "rate_limit_exceeded" THEN backoff
                  ELSE ApiWaitTime(err, attempt)
    /\ err' = NoCaught
    /\ pc' = "op"
    /\ UNCHANGED <<store, isGeneratingDocument, locals, batch, result,
                   runs, startSections, outcome, succeeded, callRequests,
                   reqFailed>>

WithRetryThrow ==
    /\ UNCHANGED outsidePage
    /\ pc = "catch"
    /\ attempt >= withRetryMaxRetries
    /\ err' = NoCaught
    /\ pc' = "pagecatch"
    /\ UNCHANGED <<store, isGeneratingDocument, locals, batch, attempt, result,
                   history>>

\* ------------------------------------- back in the page's try block
Success(us) ==
    /\ sections' = us
    /\ outcome' = [outcome EXCEPT ![i] = "ok"]
    /\ completedSections' = completedSections + 1
    /\ i' = i + 1
    /\ pc' = "for"
    /\ batch' = "main"
    /\ attempt' = 0
    /\ callRequests' = 0
    /\ result' = <<>>

AfterMain ==
    /\ UNCHANGED outsidePage
    /\ pc = "ret"
    /\ batch = "main"
    /\ IF result[1] = <<>>
       THEN /\ pc' = "pagecatch"
            /\ result' = <<>>
            /\ UNCHANGED <<sections, updatedSections, i, completedSections,
                           batch, attempt, outcome, callRequests>>
       ELSE LET us == WithContent(updatedSections, i, result[1]) IN
            /\ updatedSections' = us
            /\ IF Len(updatedSections[i].subsections) > 0
               THEN /\ batch' = "subs"
                    /\ attempt' = 0
                    /\ callRequests' = 0
                    /\ pc' = "op"
                    /\ result' = <<>>
                    /\ UNCHANGED <<sections, i, completedSections, outcome>>
               ELSE Success(us)
    /\ UNCHANGED <<error, researchTarget, isGeneratingDocument, retryCount,
                   err, runs, startSections, succeeded, reqFailed, backoff>>

AfterSubs ==
    /\ UNCHANGED outsidePage
    /\ pc = "ret"
    /\ batch = "subs"
    /\ LET us == WithSubsections(updatedSections, i, result) IN
        /\ updatedSections' = us
        /\ Success(us)
    /\ UNCHANGED <<error, researchTarget, isGeneratingDocument, retryCount,
                   err, runs, startSections, succeeded, reqFailed, backoff>>

PageCatchFrame ==
    /\ UNCHANGED outsidePage
    /\ pc = "pagecatch"
    /\ batch' = "main"
    /\ attempt' = 0
    /\ callRequests' = 0
    /\ backoff' = IF retryCount + 1 < maxRetries
                  THEN initialDelay * (2 ^ retryCount)
                  ELSE backoff
    /\ UNCHANGED <<sections, researchTarget, isGeneratingDocument,
                   updatedSections, completedSections, err, result,
                   runs, startSections, succeeded, reqFailed>>

\* Mutant of PageCatch: the final failure of one section ends the whole run
\* (the loop is left instead of continuing with the next section).
PageCatchAbort ==
    /\ PageCatchFrame
    /\ retryCount' = retryCount + 1
    /\ IF retryCount + 1 < maxRetries
       THEN /\ error' = [kind |-> "Retrying", section |-> i]
            /\ pc' = "while"
            /\ UNCHANGED <<i, outcome>>
       ELSE /\ error' = [kind |-> "Failed", section |-> i]
            /\ outcome' = [outcome EXCEPT ![i] = "failed"]
            /\ i' = Len(updatedSections) + 1
            /\ pc' = "for"

\* Mutant of PageCatch: a failed attempt moves on to the next section while
\* the failed one is still to be retried.
PageCatchSkip ==
    /\ PageCatchFrame
    /\ retryCount' = retryCount + 1
    /\ IF retryCount + 1 < maxRetries
       THEN /\ error' = [kind |-> "Retrying", section |-> i]
            /\ i' = i + 1
            /\ pc' = "for"
            /\ UNCHANGED outcome
       ELSE /\ error' = [kind |-> "Failed", section |-> i]
            /\ outcome' = [outcome EXCEPT ![i] = "failed"]
            /\ i' = i + 1
            /\ pc' = "for"

\* Mutant of PageCatch: retryCount is not incremented.
PageCatchNoCount ==
    /\ PageCatchFrame
    /\ retryCount' = retryCount
    /\ IF retryCount + 1 < maxRetries
       THEN /\ error' = [kind |-> "Retrying", section |-> i]
            /\ pc' = "while"
            /\ UNCHANGED <<i, outcome>>
       ELSE /\ error' = [kind |-> "Failed", section |-> i]
            /\ outcome' = [outcome EXCEPT ![i] = "failed"]
            /\ i' = i + 1
            /\ pc' = "for"

PageCatch ==
    /\ PageCatchFrame
    /\ retryCount' = retryCount + 1
    /\ IF retryCount + 1 < maxRetries
       THEN /\ error' = [kind |-> "Retrying", section |-> i]
            /\ pc' = "while"
            /\ UNCHANGED <<i, outcome>>
       ELSE /\ error' = [kind |-> "Failed", section |-> i]
            /\ outcome' = [outcome EXCEPT ![i] = "failed"]
            /\ i' = i + 1
            /\ pc' = "for"

RunStep ==
    \/ ForLoop
    \/ Finish
    \/ WhileAttempt
    \/ Operation
    \/ RespondError
    \/ RespondContent
    \/ WithRetryRetry
    \/ WithRetryThrow
    \/ AfterMain
    \/ AfterSubs
    \/ PageCatch

Next ==
    \/ StartDocument
    \/ RunStep

Spec == Init /\ [][Next]_vars

FairSpec == Spec /\ WF_vars(RunStep)

\* =========================================================================
\* authService.ts: ResearchAPI.generateSectionBatch, one request per node,
\* run through withRetry(operation, 0, 12, 15000).
\*
\* Times are elapsed milliseconds, saturating at MinInterval (all the code
\* and the claims ask of them is whether they reach it):
\*   timeSinceLastRequest  Date.now() - lastRequestTime, as line 712 reads it;
\*                         lastRequestTime = 0 (line 708) makes it the time
\*                         since the epoch, far above MinInterval.
\*   sinceRequest          time since the last request actually sent.
\*   issueGap              sinceRequest at the moment the last request was sent.
\* =========================================================================
Sat(t) == IF t < MinInterval THEN t ELSE MinInterval
\* Time the backend takes to answer.
Durations == {200, 3000}

AuthWaitTime(e, rc) == WaitTime(e, rc, authInitialDelay, BackoffCap)

\* Text the backend answers with, and what the clean-up leaves of it
\* (a citation marker is removed, the rest is trimmed).
RawTexts == {<<"g">>, <<"[", "c", "]">>}
Clean(raw) == IF raw = <<"[", "c", "]">> THEN <<>> ELSE raw

AuthInit == PageIdle /\ AuthIdle /\ RetryIdle

AuthCall ==
    /\ UNCHANGED outsideAuth
    /\ authPc \in {"idle", "returned", "thrown"}
    /\ \E n \in 1..MaxBatch, dt \in {0, MinInterval} :
        /\ authInput' = [j \in 1..n |-> [title |-> j, content |-> DescriptionText]]
        /\ sinceRequest' = Sat(sinceRequest + dt)
    /\ authRetryCount' = 0
    /\ batches' = <<>>
    /\ timeSinceLastRequest' = MinInterval
    /\ authIdx' = 1
    /\ authErr' = NoAuthError
    /\ returned' = <<>>
    /\ okNodes' = {}
    /\ authPc' = "loop"
    /\ UNCHANGED issueGap

AuthRequest ==
    /\ UNCHANGED outsideAuth
    /\ authPc = "loop"
    /\ authIdx <= Len(authInput)
    /\ LET wait == IF timeSinceLastRequest < MinInterval
                   THEN MinInterval - timeSinceLastRequest
                   ELSE 0
       IN  issueGap' = Sat(sinceRequest + wait)
    /\ timeSinceLastRequest' = 0
    /\ sinceRequest' = 0
    /\ authPc' = "request"
    /\ UNCHANGED <<authInput, batches, authIdx, authRetryCount, authErr,
                   returned, okNodes>>

AuthReturn ==
    /\ UNCHANGED outsideAuth
    /\ authPc = "loop"
    /\ authIdx > Len(authInput)
    /\ returned' = batches
    /\ authPc' = "returned"
    /\ UNCHANGED <<authInput, batches, authIdx, authRetryCount, authErr,
                   timeSinceLastRequest, sinceRequest, issueGap, okNodes>>

AuthRespondContent ==
    /\ UNCHANGED outsideAuth
    /\ authPc = "request"
    /\ \E d \in Durations, raw \in RawTexts :
        LET elapsed == d + IF authIdx < Len(authInput) THEN SectionDelay ELSE 0
        IN  /\ batches' = Append(batches,
                    [authInput[authIdx] EXCEPT !.content = Clean(raw)])
            /\ timeSinceLastRequest' = Sat(timeSinceLastRequest + elapsed)
            /\ sinceRequest' = Sat(sinceRequest + elapsed)
            /\ okNodes' = IF Clean(raw) # <<>> THEN okNodes \cup {authIdx}
                          ELSE okNodes
    /\ authIdx' = authIdx + 1
    /\ authPc' = "loop"
    /\ UNCHANGED <<authInput, authRetryCount, authErr, returned, issueGap>>

AuthRespondError ==
    /\ UNCHANGED outsideAuth
    /\ authPc = "request"
    /\ \E d \in Durations, e \in Errors :
        /\ authErr' = e
        /\ timeSinceLastRequest' = Sat(timeSinceLastRequest + d)
        /\ sinceRequest' = Sat(sinceRequest + d)
    /\ authPc' = "catch"
    /\ UNCHANGED <<authInput, batches, authIdx, authRetryCount, returned,
                   issueGap, okNodes>>

AuthRetry ==
    /\ UNCHANGED outsideAuth
    /\ authPc = "catch"
    /\ authRetryCount < authMaxRetries
    /\ sinceRequest' = Sat(sinceRequest + AuthWaitTime(authErr, authRetryCount))
    /\ authRetryCount' = authRetryCount + 1
    /\ batches' = <<>>
    /\ timeSinceLastRequest' = MinInterval
    /\ authIdx' = 1
    /\ authErr' = NoAuthError
    /\ authPc' = "loop"
    /\ UNCHANGED <<authInput, returned, issueGap, okNodes>>

AuthThrow ==
    /\ UNCHANGED outsideAuth
    /\ authPc = "catch"
    /\ authRetryCount >= authMaxRetries
    /\ batches' = <<>>
    /\ returned' = <<>>
    /\ authErr' = NoAuthError
    /\ authPc' = "thrown"
    /\ UNCHANGED <<authInput, authIdx, authRetryCount,
                   timeSinceLastRequest, sinceRequest, issueGap, okNodes>>

AuthNext ==
    \/ AuthCall
    \/ AuthRequest
    \/ AuthReturn
    \/ AuthRespondContent
    \/ AuthRespondError
    \/ AuthRetry
    \/ AuthThrow

SpecAuth == AuthInit /\ [][AuthNext]_vars

\* =========================================================================
\* withRetry taken alone, as each of its callers parameterises it:
\*   api        api.ts safeApiCall: withRetry(fn), defaults 8 and 1000,
\*              backoff capped at MaxBackoff;
\*   authBatch  authService.ts generateSectionBatch: withRetry(op, 0, 12, 15000);
\*   authPlain  authService.ts withRetry with its defaults 3 and 1000;
\*              the authService backoff is capped at BackoffCap.
\* The operation is any operation: it returns or throws one of Errors.
\* =========================================================================
Variants == {"api", "authBatch", "authPlain"}

MaxRetriesOf(v) ==
    CASE v = "api" -> withRetryMaxRetries
      [] v = "authBatch" -> authMaxRetries
      [] v = "authPlain" -> authDefaultMaxRetries

InitialDelayOf(v) ==
    CASE v = "api" -> withRetryInitialDelay
      [] v = "authBatch" -> authInitialDelay
      [] v = "authPlain" -> withRetryInitialDelay

CapOf(v) == IF v = "api" THEN MaxBackoff ELSE BackoffCap

RetryInit ==
    /\ PageIdle
    /\ AuthIdle
    /\ wVariant \in Variants
    /\ wPc = "run"
    /\ wRetryCount = 0
    /\ wError = NoCaught
    /\ waitTime = 0

OperationThrows ==
    /\ UNCHANGED outsideRetry
    /\ wPc = "run"
    /\ \E e \in Errors : wError' = e
    /\ wPc' = "catch"
    /\ UNCHANGED <<wVariant, wRetryCount, waitTime>>

OperationReturns ==
    /\ UNCHANGED outsideRetry
    /\ wPc = "run"
    /\ wPc' = "returned"
    /\ UNCHANGED <<wVariant, wRetryCount, wError, waitTime>>

WithRetryRethrow ==
    /\ UNCHANGED outsideRetry
    /\ wPc = "catch"
    /\ wRetryCount >= MaxRetriesOf(wVariant)
    /\ wPc' = "thrown"
    /\ UNCHANGED <<wVariant, wRetryCount, wError, waitTime>>

\* The wait is computed and slept, and the operation is run again; wError
\* stays the error caught last.
WithRetryDelay ==
    /\ UNCHANGED outsideRetry
    /\ wPc = "catch"
    /\ wRetryCount < MaxRetriesOf(wVariant)
    /\ waitTime' = WaitTime(wError, wRetryCount,
                            InitialDelayOf(wVariant), CapOf(wVariant))
    /\ wRetryCount' = wRetryCount + 1
    /\ wPc' = "run"
    /\ UNCHANGED <<wVariant, wError>>

RetryNext ==
    \/ OperationThrows
    \/ OperationReturns
    \/ WithRetryRethrow
    \/ WithRetryDelay

SpecRetry == RetryInit /\ [][RetryNext]_vars

\* =========================================================================
\* ResearchPage.tsx: handleOutlineGeneration and the outline parser in it.
\* A line is the sequence of its characters; the outline text is the
\* sequence of its lines (what split('\n') makes of it).
\* =========================================================================
RawLines ==
    { <<"1", ".", " ", "A">>,
      <<"2", ".", " ", "B", " ", "[", "d", "]">>,
      <<"1", ".", "1", " ", "C">>,
      <<" ", "2", ".", "1", " ", "D">>,
      <<"[", "d", "]">>,
      <<"x">>,
      <<>>,
      <<"1", ".", "1", ".", " ", "E">>,
      <<"3", ".", "A">> }

OutlineTexts == UNION {[1..n -> RawLines] : n \in 0..MaxLines}

RECURSIVE TrimStart(_)
TrimStart(l) == IF l # <<>> /\ l[1] = " " THEN TrimStart(Tail(l)) ELSE l

RECURSIVE TrimEnd(_)
TrimEnd(l) ==
    IF l # <<>> /\ l[Len(l)] = " " THEN TrimEnd(SubSeq(l, 1, Len(l) - 1)) ELSE l

Trim(l) == TrimEnd(TrimStart(l))

NonEmpty(l) == l # <<>>

\* outlineText.split('\n').map(line => line.trim()).filter(line => line)
SplitLines(text) == SelectSeq([k \in 1..Len(text) |-> Trim(text[k])], NonEmpty)

\* Index after the longest run of spaces of l that starts at index p.
RECURSIVE SpacesEnd(_, _)
SpacesEnd(l, p) ==
    IF p <= Len(l) /\ l[p] = " " THEN SpacesEnd(l, p + 1) ELSE p

\* (.+?)(?:\s*\[|$) from index w: the shortest non-empty text after which
\* come optional spaces and a bracket, or the end of the line.
TitleEnd(l, w) ==
    CHOOSE t \in w..Len(l) :
        LET stops(u) == \/ u = Len(l)
                        \/ LET q == SpacesEnd(l, u + 1)
                           IN  q <= Len(l) /\ l[q] = "["
        IN  stops(t) /\ \A u \in w..(t - 1) : ~stops(u)

\* /^(\d+)\.\s+(.+?)(?:\s*\[|$)/
MainNumberEnd(l) == DigitsEnd(l, 1)
MainTitleStart(l) == SpacesEnd(l, MainNumberEnd(l) + 1)

MainSectionMatch(l) ==
    /\ MainNumberEnd(l) > 1
    /\ MainNumberEnd(l) <= Len(l)
    /\ l[MainNumberEnd(l)] = "."
    /\ MainTitleStart(l) > MainNumberEnd(l) + 1
    /\ MainTitleStart(l) <= Len(l)

\* /^(\d+\.\d+)\s+(.+?)(?:\s*\[|$)/
SubNumberEnd(l) == DigitsEnd(l, DigitsEnd(l, 1) + 1)
SubTitleStart(l) == SpacesEnd(l, SubNumberEnd(l))

SubSectionMatch(l) ==
    /\ DigitsEnd(l, 1) > 1
    /\ DigitsEnd(l, 1) <= Len(l)
    /\ l[DigitsEnd(l, 1)] = "."
    /\ SubNumberEnd(l) > DigitsEnd(l, 1) + 1
    /\ SubTitleStart(l) > SubNumberEnd(l)
    /\ SubTitleStart(l) <= Len(l)

StartsWithBracket(l) == l # <<>> /\ l[1] = "["

\* lines[i + 1].slice(1, -1).trim()
Description(l) == Trim(SubSeq(l, 2, Len(l) - 1))

\* The description looked ahead for after the title at index k.
LookAhead(ls, k) == k + 1 <= Len(ls) /\ StartsWithBracket(ls[k + 1])
ContentAfter(ls, k) == IF LookAhead(ls, k) THEN Description(ls[k + 1]) ELSE <<>>

NewMainSection(ls, k) ==
    [number |-> SubSeq(ls[k], 1, MainNumberEnd(ls[k]) - 1),
     title |-> Trim(SubSeq(ls[k], MainTitleStart(ls[k]),
                           TitleEnd(ls[k], MainTitleStart(ls[k])))),
     content |-> ContentAfter(ls, k),
     subsections |-> <<>>]

NewSubsection(ls, k) ==
    [number |-> SubSeq(ls[k], 1, SubNumberEnd(ls[k]) - 1),
     title |-> Trim(SubSeq(ls[k], SubTitleStart(ls[k]),
                           TitleEnd(ls[k], SubTitleStart(ls[k])))),
     content |-> ContentAfter(ls, k)]

\* Mutant of PushSubsection: the subsection is put first.
PushSubsectionFirst(main, sub) ==
    [main EXCEPT !.subsections = <<sub>> \o @]

PushSubsection(main, sub) ==
    [main EXCEPT !.subsections = Append(@, sub)]

\* Mutant of FinalFlush: the section still open after the loop is left out.
FinalFlushOmitted(secs, cur) == secs

\* currentMainSection is <<>> for null, else the one-element <<section>>.
FinalFlush(secs, cur) == IF cur # <<>> THEN Append(secs, cur[1]) ELSE secs

\* Mutant of OtherLine: a line that is no title is appended to the content
\* of the node open at that point.
OtherLineAppended(cur, l) ==
    IF cur = <<>> THEN cur
    ELSE LET main == cur[1]
             n == Len(main.subsections)
             add(c) == IF c = <<>> THEN l ELSE c \o <<"\n">> \o l
         IN  IF n = 0
             THEN <<[main EXCEPT !.content = add(@)]>>
             ELSE <<[main EXCEPT !.subsections[n].content = add(@)]>>

\* A line that matches neither expression (or a subsection line met before
\* any main section): the loop body does nothing with it.
OtherLine(cur, l) == cur

\* The for loop from index k on, with `secs` pushed so far and `cur`
\* the open main section.
RECURSIVE ParseFrom(_, _, _, _)
ParseFrom(ls, k, secs, cur) ==
    IF k > Len(ls) THEN FinalFlush(secs, cur)
    ELSE LET step == IF LookAhead(ls, k) THEN 2 ELSE 1 IN
         IF MainSectionMatch(ls[k])
         THEN ParseFrom(ls, k + step,
                        IF cur # <<>> THEN Append(secs, cur[1]) ELSE secs,
                        <<NewMainSection(ls, k)>>)
         ELSE IF SubSectionMatch(ls[k]) /\ cur # <<>>
         THEN ParseFrom(ls, k + step, secs,
                        <<PushSubsection(cur[1], NewSubsection(ls, k))>>)
         ELSE ParseFrom(ls, k + 1, secs, OtherLine(cur, ls[k]))

ParseOutlineLines(ls) == ParseFrom(ls, 1, <<>>, <<>>)

\* Tree held in the store from an earlier outline.
EarlierSections ==
    <<[number |-> <<"9">>, title |-> <<"Z">>, content |-> <<>>,
       subsections |-> <<>>]>>

OutlineInit ==
    /\ AuthIdle
    /\ RetryIdle
    /\ DocumentIdle
    /\ ExportIdle
    /\ ApiIdle
    /\ sections \in {<<>>, EarlierSections}
    /\ error = NoError
    /\ researchTarget = 20
    /\ title \in {0, 12}
    /\ isGeneratingOutline = FALSE
    /\ outlinePc = "idle"
    /\ outlineText = <<>>
    /\ lines = <<>>
    /\ parsedSections = <<>>
    /\ outlineOutcome = "none"
    /\ outlineRuns = 0

\* Mutant of OutlineStart: the request is made whether a title is set or not.
OutlineStartUnguarded ==
    /\ UNCHANGED <<outsideOutline, documentRun>>
    /\ outlinePc = "idle"
    /\ outlineRuns < MaxOutlineRuns
    /\ isGeneratingOutline' = TRUE
    /\ outlinePc' = "request"
    /\ outlineRuns' = outlineRuns + 1
    /\ outlineText' = <<>>
    /\ lines' = <<>>
    /\ parsedSections' = <<>>
    /\ outlineOutcome' = "none"
    /\ UNCHANGED <<store, title>>

OutlineStart ==
    /\ UNCHANGED <<outsideOutline, documentRun>>
    /\ outlinePc = "idle"
    /\ IF title = 0
       THEN /\ error' = [kind |-> "NoTitle", section |-> 0]
            /\ UNCHANGED <<sections, researchTarget, outlineVars>>
       ELSE /\ outlineRuns < MaxOutlineRuns
            /\ isGeneratingOutline' = TRUE
            /\ outlinePc' = "request"
            /\ outlineRuns' = outlineRuns + 1
            /\ outlineText' = <<>>
            /\ lines' = <<>>
            /\ parsedSections' = <<>>
            /\ outlineOutcome' = "none"
            /\ UNCHANGED <<store, title>>

\* Mutant of Dispatched: the parsed tree is dispatched before it is tested.
DispatchedUntested(parsed) == parsed

\* What line 178 puts in the store, reached only when the test of line 174
\* lets it.
Dispatched(parsed) == IF Len(parsed) = 0 THEN sections ELSE parsed

\* generateOutline returned: parse, then dispatch or throw into the catch,
\* then the finally block.
OutlineReturned(texts) ==
    /\ UNCHANGED <<outsideOutline, documentRun>>
    /\ outlinePc = "request"
    /\ \E text \in texts :
        LET parsed == ParseOutlineLines(SplitLines(text)) IN
        /\ outlineText' = text
        /\ lines' = SplitLines(text)
        /\ parsedSections' = parsed
        /\ sections' = Dispatched(parsed)
        /\ error' = IF Len(parsed) = 0
                    THEN [kind |-> "OutlineFailed", section |-> 0]
                    ELSE error
    /\ outlineOutcome' = "parsed"
    /\ isGeneratingOutline' = FALSE
    /\ outlinePc' = "idle"
    /\ UNCHANGED <<researchTarget, title, outlineRuns>>

OutlineParsed == OutlineReturned(OutlineTexts)

\* generateOutline threw (its retries are exhausted).
OutlineThrown ==
    /\ UNCHANGED <<outsideOutline, documentRun>>
    /\ outlinePc = "request"
    /\ error' = [kind |-> "OutlineFailed", section |-> 0]
    /\ outlineOutcome' = "threw"
    /\ isGeneratingOutline' = FALSE
    /\ outlinePc' = "idle"
    /\ UNCHANGED <<sections, researchTarget, title, outlineText, lines,
                   parsedSections, outlineRuns>>

OutlineNext ==
    \/ OutlineStart
    \/ OutlineParsed
    \/ OutlineThrown

SpecOutline == OutlineInit /\ [][OutlineNext]_vars


\* ------------------------ the page: outline and document handlers together
\* Outline texts the backend answers with while a document may be running:
\* one without any numbered line, and one with a section.
PageOutlineTexts ==
    {<< <<"x">> >>, << <<"1", ".", " ", "A">> >>}

\* setTitle, dispatched with the generated title (line 73) or with the text
\* of the title field as the user edits it (line 344), which may be empty.
SetTitle ==
    /\ UNCHANGED <<outsideOutline, documentRun>>
    /\ \E t \in {0} \cup TitleLengths : title' = t
    /\ title' # title
    /\ UNCHANGED <<store, isGeneratingOutline, outlinePc, outlineText, lines,
                   parsedSections, outlineOutcome, outlineRuns>>

PageInit ==
    /\ AuthIdle
    /\ RetryIdle
    /\ DocumentIdle
    /\ ExportIdle
    /\ ApiIdle
    /\ sections \in TreesOfLen(0) \cup TreesOfLen(1)
    /\ error = NoError
    /\ researchTarget = 20
    /\ title \in {0} \cup TitleLengths
    /\ isGeneratingOutline = FALSE
    /\ outlinePc = "idle"
    /\ outlineText = <<>>
    /\ lines = <<>>
    /\ parsedSections = <<>>
    /\ outlineOutcome = "none"
    /\ outlineRuns = 0

PageNext ==
    \/ SetTitle
    \/ OutlineStart
    \/ OutlineReturned(PageOutlineTexts)
    \/ OutlineThrown
    \/ StartDocument
    \/ RunStep

SpecPage == PageInit /\ [][PageNext]_vars

\* ------------------------------------- Markdown export (download.ts)
\* Titles and contents of the nodes of a generated tree: a content is
\* empty, one line, or a text one of whose lines is itself written as a
\* Markdown heading.
ExportContents ==
    {<<>>, <<"g">>, <<"g", "\n", "#", "#", " ", "2", ".", " ", "B">>}

\* Trees of up to MaxSections sections, each with at most one subsection.
ExportTrees ==
    LET Sub(n, c) == [number |-> NumberText(n) \o <<".", "1">>,
                      title |-> <<"C">>, content |-> c]
        ExportKinds == [title : {<<"A">>, <<"B">>}, content : ExportContents,
                        subs : {<<>>} \cup {<<c>> : c \in ExportContents}]
        OfLen(n) ==
            {[s \in 1..n |->
                [number |-> NumberText(s), title |-> f[s].title,
                 content |-> f[s].content,
                 subsections |->
                    [j \in 1..Len(f[s].subs) |-> Sub(s, f[s].subs[j])]]]
             : f \in [1..n -> ExportKinds]}
    IN  UNION {OfLen(n) : n \in 0..MaxSections}

\* Array.prototype.join
RECURSIVE Join(_, _)
Join(pieces, sep) ==
    IF pieces = <<>> THEN <<>>
    ELSE IF Len(pieces) = 1 THEN pieces[1]
    ELSE pieces[1] \o sep \o Join(Tail(pieces), sep)

\* `### ${subsection.number} ${subsection.title}\n${content || ''}\n\n`
SubsectionContent(sub) ==
    <<"#", "#", "#", " ">> \o sub.number \o <<" ">> \o sub.title \o <<"\n">>
        \o sub.content \o <<"\n", "\n">>

\* `## ${section.number}. ${section.title}\n`, the content followed by a
\* blank line (or a line break alone), then the subsections.
SectionContent(sec) ==
    Join(<< <<"#", "#", " ">> \o sec.number \o <<".", " ">> \o sec.title
                \o <<"\n">>,
            IF sec.content # <<>> THEN sec.content \o <<"\n", "\n">>
                                  ELSE <<"\n">> >>
         \o [j \in 1..Len(sec.subsections) |->
                SubsectionContent(sec.subsections[j])],
         <<>>)

\* The content of the file: the title line, then the sections, joined by
\* line breaks.
DownloadMarkdown(t, secs) ==
    Join(<< <<"#", " ">> \o t \o <<"\n", "\n">> >>
         \o [s \in 1..Len(secs) |-> SectionContent(secs[s])],
         <<"\n">>)

ExportInit ==
    /\ AuthIdle
    /\ RetryIdle
    /\ DocumentIdle
    /\ ExportIdle
    /\ ApiIdle
    /\ sections \in ExportTrees
    /\ error = NoError
    /\ researchTarget = 20
    /\ title \in {0, 3}
    /\ isGeneratingOutline = FALSE
    /\ outlinePc = "idle"
    /\ outlineText = <<>>
    /\ lines = <<>>
    /\ parsedSections = <<>>
    /\ outlineOutcome = "none"
    /\ outlineRuns = 0

HandleDownloadMarkdown ==
    /\ UNCHANGED <<authVars, retryVars, apiVars, outlineVars, documentRun>>
    /\ IF title = 0 \/ sections = <<>>
       THEN /\ error' = [kind |-> "NoContent", section |-> 0]
            /\ UNCHANGED <<sections, researchTarget, exportVars>>
       ELSE /\ markdown' = DownloadMarkdown(TitleText(title), sections)
            /\ downloaded' = TRUE
            /\ exportedSections' = sections
            /\ UNCHANGED store

ExportNext == HandleDownloadMarkdown

SpecExport == ExportInit /\ [][ExportNext]_vars

\* ------------------------------------------- getResearchApi (api.ts)
\* getResearchApi is entered: it tests researchApiInstance and, finding
\* none, calls initialize, which tests ResearchAPI.instance and, finding
\* none, starts loadGroq; all of it runs before the first await gives the
\* other callers their turn.
GetResearchApi(c) ==
    /\ UNCHANGED <<pageVars, authVars, retryVars, outlineVars, exportVars>>
    /\ apiPc[c] \in {"idle", "returned", "thrown"}
    /\ IF researchApiInstance # 0
       THEN /\ obtained' = [obtained EXCEPT ![c] = researchApiInstance]
            /\ apiPc' = [apiPc EXCEPT ![c] = "returned"]
            /\ resolved' = resolved
       ELSE /\ obtained' = [obtained EXCEPT ![c] = 0]
            /\ IF instance # 0
               THEN /\ resolved' = [resolved EXCEPT ![c] = instance]
                    /\ apiPc' = [apiPc EXCEPT ![c] = "assign"]
               ELSE /\ resolved' = [resolved EXCEPT ![c] = 0]
                    /\ apiPc' = [apiPc EXCEPT ![c] = "loadGroq"]
    /\ UNCHANGED <<instance, researchApiInstance, constructed>>

\* loadGroq resolved: the key is read and sqliteService.initialize awaited.
LoadGroqResolved(c) ==
    /\ UNCHANGED <<pageVars, authVars, retryVars, outlineVars, exportVars>>
    /\ apiPc[c] = "loadGroq"
    /\ apiPc' = [apiPc EXCEPT ![c] = "sqlite"]
    /\ UNCHANGED <<instance, researchApiInstance, resolved, obtained,
                   constructed>>

\* loadGroq or sqliteService.initialize rejected: getResearchApi rejects.
InitializeThrows(c) ==
    /\ UNCHANGED <<pageVars, authVars, retryVars, outlineVars, exportVars>>
    /\ apiPc[c] \in {"loadGroq", "sqlite"}
    /\ apiPc' = [apiPc EXCEPT ![c] = "thrown"]
    /\ UNCHANGED <<instance, researchApiInstance, resolved, obtained,
                   constructed>>

\* sqliteService.initialize resolved: the client is constructed, stored in
\* ResearchAPI.instance and returned.
Construct(c) ==
    /\ UNCHANGED <<pageVars, authVars, retryVars, outlineVars, exportVars>>
    /\ apiPc[c] = "sqlite"
    /\ constructed' = constructed + 1
    /\ instance' = constructed + 1
    /\ resolved' = [resolved EXCEPT ![c] = constructed + 1]
    /\ apiPc' = [apiPc EXCEPT ![c] = "assign"]
    /\ UNCHANGED <<researchApiInstance, obtained>>

\* initialize resolved: researchApiInstance is assigned and returned.
AssignInstance(c) ==
    /\ UNCHANGED <<pageVars, authVars, retryVars, outlineVars, exportVars>>
    /\ apiPc[c] = "assign"
    /\ researchApiInstance' = resolved[c]
    /\ obtained' = [obtained EXCEPT ![c] = resolved[c]]
    /\ apiPc' = [apiPc EXCEPT ![c] = "returned"]
    /\ UNCHANGED <<instance, resolved, constructed>>

ApiInit == PageIdle /\ AuthIdle /\ RetryIdle

ApiNext ==
    \E c \in Callers :
        \/ GetResearchApi(c)
        \/ LoadGroqResolved(c)
        \/ InitializeThrows(c)
        \/ Construct(c)
        \/ AssignInstance(c)

SpecApi == ApiInit /\ [][ApiNext]_vars

\* ------------------------------------------------ run-level notions
\* The run started last has ended (the finally block has run).
Done == runs > 0 /\ pc = "idle"

Ended(j) == outcome[j] \in {"ok", "failed"}
FailedSections == {j \in DOMAIN outcome : outcome[j] = "failed"}
\* Sections of which some request returned content for every node asked.
ReqOk == {n[1] : n \in succeeded}
Generated(sec) ==
    /\ sec.content \in Texts
    /\ \A j \in DOMAIN sec.subsections : sec.subsections[j].content \in Texts

\* ============================================================ claims

\* C1: in a run over N sections, if every backend request for section K
\* fails (and there is one) and no request for another section fails, the
\* run ends
\* with the generated content of every section other than K in the store,
\* and exactly one final failure is reported, which names section K.
C1_OnlyKFails ==
    \A K \in 1..MaxSections :
        (/\ Done
         /\ K <= Len(sections)
         /\ reqFailed = {K}
         /\ K \notin ReqOk)
        => (/\ \A j \in (1..Len(sections)) \ {K} : Generated(sections[j])
            /\ FailedSections = {K}
            /\ error = [kind |-> "Failed", section |-> K])

C1_Witness ==
    /\ Done
    /\ Len(sections) = 2
    /\ reqFailed = {1}
    /\ ReqOk = {2}
    /\ Len(sections[2].subsections) = 1
    /\ Generated(sections[2])
    /\ error = [kind |-> "Failed", section |-> 1]

\* C2: a generateSectionBatch call over several nodes is not aborted when one
\* node's request keeps failing: it returns, and what it returns holds the
\* content of every node whose request succeeded.
C2_PartialResult ==
    (authPc \in {"returned", "thrown"} /\ Len(authInput) >= 2) =>
        /\ authPc = "returned"
        /\ \A j \in okNodes :
            j <= Len(returned) /\ returned[j].content \in Texts

\* C5: every request is sent at least MinInterval after the request before it.
C5_MinInterval == authPc = "request" => issueGap >= MinInterval

\* C3: a ValidationError caught by withRetry is rethrown at once: the step
\* after the catch is the throw to the caller, never another run of the
\* operation.
C3_ValidationAborts ==
    [][(pc = "catch" /\ err.code = "VALIDATION_ERROR") => pc' = "pagecatch"]_vars

\* C4: no more than maxRetries backend requests are made for one node.
\* callRequests counts those of one generateSectionBatch call only, a lower
\* bound of the node's count over all layers.
C4_AttemptBound == callRequests <= maxRetries

\* C6: while a request is in flight for section i, every earlier section has
\* ended (success or final failure), section i has not, and no request has
\* yet been made for a later section.
C6_Sequential ==
    pc = "request" =>
        /\ \A j \in 1..(i - 1) : Ended(j)
        /\ \A j \in i..Len(outcome) : outcome[j] = "pending"
        /\ \A j \in (i + 1)..Len(outcome) : j \notin reqFailed \cup ReqOk

C6_Witness ==
    /\ pc = "request"
    /\ i = 2
    /\ batch = "subs"
    /\ outcome[1] = "failed"
    /\ retryCount > 0

\* C7: when the run has ended, the caller holds a failure record for every
\* section that finally failed. The only record the caller keeps is the
\* store's error, which names one section.
C7_AllFailuresHeld ==
    Done => \A j \in FailedSections :
                error = [kind |-> "Failed", section |-> j]

\* C8: within a run, once a section's content has been written to the store
\* (the section succeeded, or its store content differs from the content the
\* run started with), no later step of the run changes that section in the
\* store.
Written(j) ==
    \/ outcome[j] = "ok"
    \/ sections[j].content # startSections[j].content

C8_ContentKept ==
    [][(runs > 0 /\ runs' = runs) =>
        \A j \in 1..Len(sections) : Written(j) => sections'[j] = sections[j]]_vars

C8_Witness ==
    /\ Done
    /\ Len(sections) = 2
    /\ outcome[1] = "ok"
    /\ outcome[2] = "failed"
    /\ Generated(sections[1])
    /\ Len(sections[1].subsections) = 1

\* C9: no backend request is issued for a node whose request has already
\* succeeded in this run, nor for a section that has finally failed.
C9_Terminal ==
    pc = "request" => (<<i, batch>> \notin succeeded /\ ~Ended(i))

\* C10: every run terminates: once generating, the flag is eventually reset
\* with every section ended in success or final failure.
C10_Terminates ==
    isGeneratingDocument ~>
        (~isGeneratingDocument /\ \A j \in DOMAIN outcome : Ended(j))

C10_Witness ==
    /\ Done
    /\ ~isGeneratingDocument
    /\ Len(sections) = 2
    /\ outcome = <<"failed", "ok">>
    /\ reqFailed = {1, 2}

\* C11: for one section, each backoff wait (a wait after an error that is not
\* a throttling error, in withRetry or in the page's retry loop) is no shorter
\* than the backoff wait before it and no longer than the cap. backoff is the
\* section's last backoff wait, 0 before the first.
BackoffStep ==
    \/ pc = "catch" /\ pc' = "op" /\ err.code # "rate_limit_exceeded"
    \/ pc = "pagecatch" /\ pc' = "while"

C11_BackoffMonotone ==
    [][BackoffStep => (backoff' >= backoff /\ backoff' <= MaxBackoff)]_vars

\* C12: after a failure that is not a throttling error, withRetry waits
\* min(initialDelay * 2^attempt, cap), attempt being the number of retries
\* made before: 1000 ms and 700000 ms in api.ts, cap 30000 ms in authService.
C12_BackoffFormula ==
    (wPc = "run" /\ wRetryCount > 0 /\ wError.code # "rate_limit_exceeded") =>
        waitTime =
            Least((IF wVariant = "authBatch" THEN authInitialDelay
                   ELSE withRetryInitialDelay) * (2 ^ (wRetryCount - 1)),
                  IF wVariant = "api" THEN MaxBackoff ELSE BackoffCap)

C12_Witness ==
    /\ wPc = "run"
    /\ wVariant = "authBatch"
    /\ wRetryCount = 3
    /\ wError.code = "other"
    /\ waitTime = BackoffCap

\* N * 1000 ms rounded up to the whole millisecond, for N worth `units`
\* 1/10000 s.
ExactCeil(units) == (units + 9) \div 10

\* C13: a rate-limit error whose message holds "Please try again in <N>s" is
\* waited for N * 1000 ms, rounded up to the whole millisecond (7.5 s: 7500 ms).

C13_HintWait ==
    (/\ wPc = "run"
     /\ wRetryCount > 0
     /\ wError.code = "rate_limit_exceeded"
     /\ Matches(wError.message, {HintLiteral}))
    => waitTime = ExactCeil(Captured(wError.message, {HintLiteral}))

C15_SameSequence ==
    authPc = "returned" =>
        /\ Len(returned) = Len(authInput)
        /\ \A j \in 1..Len(returned) :
            /\ returned[j].title = authInput[j].title
            /\ returned[j].content # <<>>

\* ----------------------------------------------- outline-text notions
\* A numbered line starts with a digit. Its number is the integer, or the
\* integer.integer, it starts with; its title is what follows the number,
\* the period and the spaces, up to a bracket, trimmed.
Numbered(l) == l # <<>> /\ IsDigit(l[1])

LineNumber(l) ==
    LET a == DigitsEnd(l, 1)
    IN  IF a < Len(l) /\ l[a] = "." /\ IsDigit(l[a + 1])
        THEN SubSeq(l, 1, DigitsEnd(l, a + 1) - 1)
        ELSE SubSeq(l, 1, a - 1)

IsSubNumber(num) == \E k \in 1..Len(num) : num[k] = "."

RECURSIVE UpToBracket(_)
UpToBracket(l) ==
    IF l = <<>> \/ l[1] = "[" THEN <<>> ELSE <<l[1]>> \o UpToBracket(Tail(l))

LineTitle(l) ==
    LET rest == SubSeq(l, Len(LineNumber(l)) + 1, Len(l))
        text == IF rest # <<>> /\ rest[1] = "." THEN Tail(rest) ELSE rest
    IN  Trim(UpToBracket(text))

\* The documented patterns: "<integer>. <title>" and "<integer>.<integer>
\* <title>"; a subsection line comes after some main-section line.
WellFormedLine(l) ==
    LET n == Len(LineNumber(l))
    IN  /\ LineTitle(l) # <<>>
        /\ IF IsSubNumber(LineNumber(l))
           THEN n < Len(l) /\ l[n + 1] = " "
           ELSE n + 1 < Len(l) /\ l[n + 1] = "." /\ l[n + 2] = " "

WellFormed(ls) ==
    \A k \in 1..Len(ls) :
        Numbered(ls[k]) =>
            /\ WellFormedLine(ls[k])
            /\ IsSubNumber(LineNumber(ls[k])) =>
                \E j \in 1..(k - 1) :
                    Numbered(ls[j]) /\ ~IsSubNumber(LineNumber(ls[j]))

Pair(num, t) == [number |-> num, title |-> t]

RECURSIVE NumberedPairs(_)
NumberedPairs(ls) ==
    IF ls = <<>> THEN <<>>
    ELSE (IF Numbered(ls[1])
          THEN <<Pair(LineNumber(ls[1]), LineTitle(ls[1]))>> ELSE <<>>)
         \o NumberedPairs(Tail(ls))

RECURSIVE Flatten(_)
Flatten(secs) ==
    IF secs = <<>> THEN <<>>
    ELSE <<Pair(secs[1].number, secs[1].title)>>
         \o [j \in 1..Len(secs[1].subsections) |->
                Pair(secs[1].subsections[j].number, secs[1].subsections[j].title)]
         \o Flatten(Tail(secs))

\* Lines that open a main section / a subsection, and the node of the parsed
\* tree that is open after line k: section MainsUpTo(k), and in it
\* subsection SubsSince(k), the section itself when that is 0.
MainLines(ls) == {k \in 1..Len(ls) : MainSectionMatch(ls[k])}
MainsUpTo(ls, k) == Cardinality({j \in MainLines(ls) : j <= k})
LastMain(ls, k) ==
    CHOOSE m \in MainLines(ls) :
        m <= k /\ \A j \in MainLines(ls) : j <= k => j <= m
SubsSince(ls, k) ==
    Cardinality({j \in (LastMain(ls, k) + 1)..k : SubSectionMatch(ls[j])})

OpenContent(secs, ls, k) ==
    IF SubsSince(ls, k) = 0
    THEN secs[MainsUpTo(ls, k)].content
    ELSE secs[MainsUpTo(ls, k)].subsections[SubsSince(ls, k)].content

\* C16: for a well-formed outline text the parsed tree, flattened (each
\* section, then its subsections), is the sequence of the (number, title) of
\* the numbered lines, in the order and with the numbers of the text.
C16_FlattenIsNumberedLines ==
    (outlineOutcome = "parsed" /\ WellFormed(lines)) =>
        Flatten(parsedSections) = NumberedPairs(lines)

C16_Witness ==
    /\ outlineOutcome = "parsed"
    /\ WellFormed(lines)
    /\ Len(lines) = 4
    /\ Len(parsedSections) = 2
    /\ parsedSections[1].number = <<"2">>
    /\ parsedSections[1].title = <<"B">>
    /\ Len(parsedSections[1].subsections) = 2
    /\ parsedSections[1].subsections[1].number = <<"2", ".", "1">>
    /\ parsedSections[2].number = <<"1">>

\* C17: a text with a main-section line yields as many sections as it has
\* main-section lines, and the last one is the section opened by the last
\* main-section line, with the subsections that follow it.
C17_FinalFlush ==
    (outlineOutcome = "parsed" /\ MainLines(lines) # {}) =>
        LET m == LastMain(lines, Len(lines))
            last == parsedSections[Len(parsedSections)]
        IN  /\ Len(parsedSections) = Cardinality(MainLines(lines))
            /\ last.number = LineNumber(lines[m])
            /\ last.title = LineTitle(lines[m])
            /\ Len(last.subsections) = SubsSince(lines, Len(lines))

C17_Witness ==
    /\ outlineOutcome = "parsed"
    /\ Len(parsedSections) = 2
    /\ parsedSections[2].number = <<"2">>
    /\ Len(parsedSections[2].subsections) = 2
    /\ lines[Len(lines)] = <<"2", ".", "1", " ", "D">>

\* A line is a fragment of a content: it stands in it between newlines.
Fragment(l, c) ==
    \E a \in 1..Len(c) :
        /\ a + Len(l) - 1 <= Len(c)
        /\ SubSeq(c, a, a + Len(l) - 1) = l
        /\ a = 1 \/ c[a - 1] = "\n"
        /\ a + Len(l) - 1 = Len(c) \/ c[a + Len(l)] = "\n"

FreeLine(ls, k) ==
    /\ ~Numbered(ls[k])
    /\ ~(StartsWithBracket(ls[k]) /\ k > 1 /\ Numbered(ls[k - 1]))

\* C18: every line that is no title and no description directly after a
\* title, met while a node is open, is a fragment of the content of the
\* node open at that point.
C18_FreeLinesAppended ==
    outlineOutcome = "parsed" =>
        \A k \in 1..Len(lines) :
            (FreeLine(lines, k) /\ MainsUpTo(lines, k) > 0) =>
                Fragment(lines[k], OpenContent(parsedSections, lines, k))

\* C19: a subsection whose title line is not followed by a bracketed line
\* has the empty content, whatever follows.
C19_NoDescriptionEmpty ==
    outlineOutcome = "parsed" =>
        \A k \in 1..Len(lines) :
            (/\ SubSectionMatch(lines[k])
             /\ MainsUpTo(lines, k) > 0
             /\ ~LookAhead(lines, k)) =>
                OpenContent(parsedSections, lines, k) = <<>>

C19_Witness ==
    /\ outlineOutcome = "parsed"
    /\ lines = << <<"1", ".", " ", "A">>, <<"1", ".", "1", " ", "C">>, <<"x">> >>
    /\ Len(parsedSections) = 1
    /\ parsedSections[1].subsections[1].content = <<>>

\* C20: when the text parses to no section, the run ends with the error set,
\* the tree in the store as it was, and the generating flag reset.
C20_ZeroSections ==
    [][(outlinePc = "request" /\ outlineOutcome' = "parsed"
            /\ parsedSections' = <<>>) =>
        (/\ sections' = sections
         /\ error' = [kind |-> "OutlineFailed", section |-> 0]
         /\ ~isGeneratingOutline'
         /\ outlinePc' = "idle")]_vars

C20_Witness ==
    /\ outlineOutcome = "parsed"
    /\ parsedSections = <<>>
    /\ lines # <<>>
    /\ sections = EarlierSections
    /\ error = [kind |-> "OutlineFailed", section |-> 0]
    /\ ~isGeneratingOutline

\* A text of digits that denotes a positive integer.
PositiveInteger(ds) ==
    /\ ds # <<>>
    /\ \A k \in 1..Len(ds) : IsDigit(ds[k])
    /\ \E k \in 1..Len(ds) : ds[k] # "0"

\* C21: in every parsed tree each subsection's number is its parent's number,
\* a dot and a positive integer.
C21_SubNumberPrefix ==
    outlineOutcome = "parsed" =>
        \A s \in 1..Len(parsedSections) :
            \A j \in 1..Len(parsedSections[s].subsections) :
                LET num == parsedSections[s].subsections[j].number
                    n == Len(parsedSections[s].number)
                IN  /\ Len(num) > n + 1
                    /\ SubSeq(num, 1, n) = parsedSections[s].number
                    /\ num[n + 1] = "."
                    /\ PositiveInteger(SubSeq(num, n + 2, Len(num)))

\* C25: in every parsed tree no two sections have the same number, and no two
\* subsections of one section have the same number.
C25_SiblingNumbersUnique ==
    outlineOutcome = "parsed" =>
        /\ \A s, t \in 1..Len(parsedSections) :
            s # t => parsedSections[s].number # parsedSections[t].number
        /\ \A s \in 1..Len(parsedSections) :
            \A j, k \in 1..Len(parsedSections[s].subsections) :
                j # k => parsedSections[s].subsections[j].number
                            # parsedSections[s].subsections[k].number

\* ------------------------------------------- reading an exported file
RECURSIVE LinesOf(_)
LinesOf(text) ==
    LET breaks == {k \in 1..Len(text) : text[k] = "\n"}
    IN  IF breaks = {} THEN <<text>>
        ELSE LET k == CHOOSE b \in breaks : \A c \in breaks : b <= c
             IN  <<SubSeq(text, 1, k - 1)>>
                 \o LinesOf(SubSeq(text, k + 1, Len(text)))

StartsWith(l, prefix) ==
    Len(l) >= Len(prefix) /\ SubSeq(l, 1, Len(prefix)) = prefix

\* The nodes of a tree in tree order, each with the marker of its level.
RECURSIVE Nodes(_)
Nodes(secs) ==
    IF secs = <<>> THEN <<>>
    ELSE <<[marker |-> <<"#", "#", " ">>, node |-> secs[1]]>>
         \o [j \in 1..Len(secs[1].subsections) |->
                [marker |-> <<"#", "#", "#", " ">>,
                 node |-> secs[1].subsections[j]]]
         \o Nodes(Tail(secs))

\* Line l is the heading of node n: the marker, the number, a period and
\* the title (a space may separate the period from the title).
IsHeading(l, n) ==
    \E gap \in {<<>>, <<" ">>} :
        l = n.marker \o n.node.number \o <<".">> \o gap \o n.node.title

ContentLines(n) ==
    IF n.node.content = <<>> THEN <<>> ELSE LinesOf(n.node.content)

\* The lines ls hold, in order, the heading of each of the nodes, each
\* followed by the lines of the node's content.
RECURSIVE Rendered(_, _)
Rendered(ls, nodes) ==
    IF nodes = <<>> THEN TRUE
    ELSE LET body == ContentLines(nodes[1])
             hits == {k \in 1..Len(ls) :
                        /\ IsHeading(ls[k], nodes[1])
                        /\ k + Len(body) <= Len(ls)
                        /\ SubSeq(ls, k + 1, k + Len(body)) = body}
         IN  /\ hits # {}
             /\ LET k == CHOOSE h \in hits : \A g \in hits : h <= g
                IN  Rendered(SubSeq(ls, k + Len(body) + 1, Len(ls)),
                             Tail(nodes))

\* C22: the exported file holds, in tree order, a "##" heading for every
\* section and a "###" heading for every subsection, each made of the node's
\* number, a period and its title and followed by the node's content; the
\* tree in the store is the one that was exported.
C22_ExportRendersTree ==
    downloaded =>
        /\ Rendered(LinesOf(markdown), Nodes(exportedSections))
        /\ sections = exportedSections

\* The text of a heading line once its "##" or "###" marker is taken off.
HeadingText(l) ==
    IF StartsWith(l, <<"#", "#", "#", " ">>) THEN SubSeq(l, 5, Len(l))
    ELSE SubSeq(l, 4, Len(l))

IsHeadingLine(l) ==
    StartsWith(l, <<"#", "#", " ">>) \/ StartsWith(l, <<"#", "#", "#", " ">>)

\* The (number, title) pairs read from the "##" and "###" lines of a file.
ReadHeadings(text) ==
    LET hs == SelectSeq(LinesOf(text), IsHeadingLine)
    IN  [k \in 1..Len(hs) |->
            Pair(LineNumber(HeadingText(hs[k])), LineTitle(HeadingText(hs[k])))]

\* C23: reading the "##" and "###" heading lines of the exported file gives
\* back the (number, title) sequence of the tree, whatever the contents are.
C23_ExportRoundTrip ==
    downloaded => ReadHeadings(markdown) = Flatten(exportedSections)

\* C30: at most one ResearchAPI object is ever constructed, and all the
\* callers that obtained an object obtained the same one.
C30_SingleInstance ==
    /\ constructed <= 1
    /\ \A c, d \in Callers :
        obtained[c] # 0 /\ obtained[d] # 0 => obtained[c] = obtained[d]

\* C24: when a call returns text for a node, the node's content becomes
\* exactly that text (for a section the first element of the reply, for
\* the subsections each non-empty element of the reply).
C24_ContentReplaced ==
    [][(pc = "ret" /\ pc' # "pagecatch") =>
        IF batch = "main"
        THEN updatedSections'[i].content = result[1]
        ELSE \A j \in DOMAIN result :
                result[j] # <<>> =>
                    updatedSections'[i].subsections[j].content = result[j]]_vars

C24_Witness ==
    /\ Len(outcome) > 0
    /\ Len(sections[1].subsections) > 0
    /\ outcome[1] = "ok"
    /\ startSections[1].content = DescriptionText
    /\ sections[1].content \in Texts
    /\ startSections[1].subsections[1].content = DescriptionText
    /\ sections[1].subsections[1].content \in Texts

\* C26: every section is entered with retryCount = 0, every call of a
\* section starts with attempt = 0, and the waits computed from them start
\* at the initial delay.
C26_FreshRetryState ==
    [][/\ (pc = "for" /\ pc' = "while") => retryCount' = 0
       /\ (pc = "while" /\ pc' = "op") => attempt' = 0
       /\ (pc = "pagecatch" /\ pc' = "while" /\ backoff = 0) =>
            backoff' = initialDelay
       /\ (pc = "catch" /\ pc' = "op" /\ backoff = 0 /\ backoff' # 0) =>
            \E k \in 0..withRetryMaxRetries :
                /\ k = attempt
                /\ backoff' = withRetryInitialDelay * (2 ^ k)]_vars

C26_Witness ==
    /\ i = 2
    /\ outcome[1] = "failed"
    /\ pc = "while"
    /\ retryCount = 1
    /\ backoff = initialDelay

\* C27: an outline request is only sent with a title set, a section-content
\* request only with a non-empty tree in the store; a handler whose guard
\* fails sets its error and sends nothing.
C27_GuardedRequests ==
    [][/\ (outlinePc # "request" /\ outlinePc' = "request") => title # 0
       /\ (pc # "request" /\ pc' = "request") => sections # <<>>
       /\ (OutlineStart /\ title = 0) =>
            /\ error' = [kind |-> "NoTitle", section |-> 0]
            /\ outlinePc' = outlinePc
            /\ outlineRuns' = outlineRuns
       /\ (StartDocument /\ sections = <<>>) =>
            /\ error' = [kind |-> "NoOutline", section |-> 0]
            /\ pc' = pc
            /\ runs' = runs
            /\ callRequests' = callRequests]_vars

C27_Witness ==
    /\ error.kind = "NoTitle"
    /\ title = 0
    /\ sections = <<>>
    /\ outlineRuns = 0
    /\ runs = 0
    /\ outlinePc = "idle"
    /\ pc = "idle"

\* A tree without the contents of its nodes.
Shape(secs) ==
    [s \in 1..Len(secs) |->
        [number |-> secs[s].number, title |-> secs[s].title,
         subsections |->
            [j \in 1..Len(secs[s].subsections) |->
                Pair(secs[s].subsections[j].number,
                     secs[s].subsections[j].title)]]]

\* C28: every tree a run writes to the store has the sections, the numbers,
\* the titles and the subsection lists of the tree captured when the run
\* started.
C28_OnlyContentChanges ==
    [][(pc # "idle" /\ sections' # sections) =>
            Shape(sections') = Shape(startSections)]_vars

C28_Witness ==
    /\ Len(outcome) = 2
    /\ outcome[1] = "ok"
    /\ sections[1].content # startSections[1].content
    /\ Shape(sections) = Shape(startSections)

\* C29: once an outline has been generated, the store holds the tree of that
\* outline (with whatever content was generated for it since), also when the
\* generation completed during a document run.
C29_OutlineKept ==
    (outlineOutcome = "parsed" /\ parsedSections # <<>>) =>
        Shape(sections) = Shape(parsedSections)
====
